---------------------------- MODULE Spec2Model ----------------------------
(***************************************************************************)
(* A model of the quadtree of src/src/quadtree/mod.rs and of the shape    *)
(* geometry of src/src/quadtree/quad_val.rs.                               *)
(*                                                                         *)
(* Coordinates are integers.  The tree bounds have side 2^(MAX_DEPTH+1),   *)
(* so that every centre and every half size the code computes on the way   *)
(* down to MAX_DEPTH is an integer and "* 0.5" is an exact "\div 2".       *)
(* Distances are compared by their squares (all radii are >= 0).           *)
(*                                                                         *)
(* Option<X> is a sequence of length 0 (None) or 1 (Some(x)).              *)
(* An operation that can panic returns a record with a field ok; ok =      *)
(* FALSE means that the call panicked.                                     *)
(***************************************************************************)
EXTENDS Integers, Sequences, FiniteSets, TLC

\* ------------------------------------------------------------------------
\* Constants of the program and bounds of the model

\* Quadtree::THRESHOLD
THRESHOLD == 32

\* the threshold of the trees that are explored in full: the same code with
\* a small threshold, so that splits and merges happen with few values
SmallThreshold == 2

\* the value of Quadtree::THRESHOLD that the tree was built with; it is the
\* same in every state of a behaviour
VARIABLE threshold

MAX_DEPTH == 8

\* at most this many entries are stored in the tree at once
MaxValues == 4

\* ------------------------------------------------------------------------
\* bevy::math::Vec2 and Rect, as far as the quadtree uses them

Min2(a, b) == IF a <= b THEN a ELSE b

Max2(a, b) == IF a >= b THEN a ELSE b

Vec(x, y) == [x |-> x, y |-> y]

VAdd(p, q) == Vec(p.x + q.x, p.y + q.y)

VSub(p, q) == Vec(p.x - q.x, p.y - q.y)

\* the square of Vec2::distance
DistSq(p, q) == (p.x - q.x) * (p.x - q.x) + (p.y - q.y) * (p.y - q.y)

FromCorners(p0, p1) ==
  [min |-> Vec(Min2(p0.x, p1.x), Min2(p0.y, p1.y)),
   max |-> Vec(Max2(p0.x, p1.x), Max2(p0.y, p1.y))]

FromCenterHalfSize(c, h) == [min |-> VSub(c, h), max |-> VAdd(c, h)]

RectWidth(r) == r.max.x - r.min.x

RectHeight(r) == r.max.y - r.min.y

RectHalfSize(r) == Vec(RectWidth(r) \div 2, RectHeight(r) \div 2)

RectCenter(r) == Vec((r.min.x + r.max.x) \div 2, (r.min.y + r.max.y) \div 2)

\* Rect::contains: the borders are inside
RectContains(r, p) ==
  /\ p.x >= r.min.x /\ p.y >= r.min.y
  /\ p.x <= r.max.x /\ p.y <= r.max.y

\* Rect::intersect: the overlap, collapsed to an empty Rect when there is none
RectIntersect(r, o) ==
  LET mx == Vec(Min2(r.max.x, o.max.x), Min2(r.max.y, o.max.y))
      mn == Vec(Max2(r.min.x, o.min.x), Max2(r.min.y, o.min.y))
  IN  [min |-> Vec(Min2(mn.x, mx.x), Min2(mn.y, mx.y)), max |-> mx]

\* is_empty with > for >=: a rectangle without width or height is not empty
RectIsEmptyInverted(r) == r.min.x > r.max.x \/ r.min.y > r.max.y

\* Rect::is_empty: no width or no height
RectIsEmpty(r) == r.min.x >= r.max.x \/ r.min.y >= r.max.y

\* ------------------------------------------------------------------------
\* Shape and QuadVal (quad_val.rs)

\* Rectangle::new(width, height) keeps the half size
Quad(hx, hy) ==
  [kind |-> "Quad", half_size |-> Vec(hx, hy), radius |-> 0, half_length |-> 0]

Circle(r) ==
  [kind |-> "Circle", half_size |-> Vec(0, 0), radius |-> r, half_length |-> 0]

Capsule(r, hl) ==
  [kind |-> "Capsule", half_size |-> Vec(0, 0), radius |-> r, half_length |-> hl]

QuadVal(pos, shape) == [pos |-> pos, shape |-> shape]

\* impl AsQuadVal for Rect
RectAsQuadVal(r) ==
  QuadVal(RectCenter(r), Quad(RectWidth(r) \div 2, RectHeight(r) \div 2))

\* impl AsQuadVal for Vec2
PointAsQuadVal(p) == QuadVal(p, Circle(0))

aabb(v) ==
  CASE v.shape.kind = "Quad" -> FromCenterHalfSize(v.pos, v.shape.half_size)
    [] v.shape.kind = "Circle" ->
         FromCenterHalfSize(v.pos, Vec(v.shape.radius, v.shape.radius))
    [] v.shape.kind = "Capsule" ->
         FromCenterHalfSize(v.pos,
           Vec(v.shape.radius, v.shape.half_length + v.shape.radius))

is_contained_by(v, bounds) ==
  RectContains(bounds, aabb(v).min) /\ RectContains(bounds, aabb(v).max)

rects_intersect(rect, other) ==
  /\ rect.min.x <= other.max.x /\ other.min.x <= rect.max.x
  /\ rect.min.y <= other.max.y /\ other.min.y <= rect.max.y

rectangles_intersect(pos1, hs1, pos2, hs2) ==
  rects_intersect(FromCenterHalfSize(pos1, hs1), FromCenterHalfSize(pos2, hs2))

\* rectangle_circle_intersect with the circle taken as its bounding box
rectangle_circle_by_box(rect_pos, hs, c_center, c_radius) ==
  rects_intersect(FromCenterHalfSize(rect_pos, hs),
                  FromCenterHalfSize(c_center, Vec(c_radius, c_radius)))

rectangle_circle_intersect(rect_pos, hs, c_center, c_radius) ==
  LET rect == FromCenterHalfSize(rect_pos, hs)
      close_pt == Vec(Max2(rect.min.x, Min2(c_center.x, rect.max.x)),
                      Max2(rect.min.y, Min2(c_center.y, rect.max.y)))
  IN  DistSq(close_pt, c_center) <= c_radius * c_radius

\* circles_intersect with < for <=
circles_intersect_strict(c1, r1, c2, r2) ==
  DistSq(c1, c2) < (r1 + r2) * (r1 + r2)

circles_intersect(c1, r1, c2, r2) == DistSq(c1, c2) <= (r1 + r2) * (r1 + r2)

rectangle_capsule_intersect(rect_pos, hs, c_pos, capsule) ==
  LET c_internal_rect ==
        FromCenterHalfSize(c_pos, Vec(capsule.radius, capsule.half_length))
      rect == FromCenterHalfSize(rect_pos, hs)
      c1 == VAdd(c_pos, Vec(0, capsule.half_length))
      c2 == VSub(c_pos, Vec(0, capsule.half_length))
  IN  \/ rects_intersect(rect, c_internal_rect)
      \/ \E c \in {c1, c2} :
           rectangle_circle_intersect(rect_pos, hs, c, capsule.radius)

\* circle_capsule_intersect without the lower end cap
circle_capsule_upper_cap_only(c_center, c_radius, cap_center, capsule) ==
  LET cap_intern_rect ==
        FromCenterHalfSize(cap_center, Vec(capsule.radius, capsule.half_length))
      c1 == VAdd(cap_center, Vec(0, capsule.half_length))
  IN  \/ rectangle_circle_intersect(
           RectCenter(cap_intern_rect),
           Vec(RectWidth(cap_intern_rect) \div 2, RectHeight(cap_intern_rect) \div 2),
           c_center, c_radius)
      \/ circles_intersect(c_center, c_radius, c1, capsule.radius)

circle_capsule_intersect(c_center, c_radius, cap_center, capsule) ==
  LET cap_intern_rect ==
        FromCenterHalfSize(cap_center, Vec(capsule.radius, capsule.half_length))
      c1 == VAdd(cap_center, Vec(0, capsule.half_length))
      c2 == VSub(cap_center, Vec(0, capsule.half_length))
  IN  \/ rectangle_circle_intersect(
           RectCenter(cap_intern_rect),
           Vec(RectWidth(cap_intern_rect) \div 2, RectHeight(cap_intern_rect) \div 2),
           c_center, c_radius)
      \/ \E c \in {c1, c2} : circles_intersect(c_center, c_radius, c, capsule.radius)

capsules_intersect(c1, capsule1, c2, capsule2) ==
  LET hs1 == Vec((capsule1.radius * 2) \div 2, (capsule1.half_length * 2) \div 2)
      hs2 == Vec((capsule2.radius * 2) \div 2, (capsule2.half_length * 2) \div 2)
      centers1 == {VAdd(c1, Vec(0, capsule1.half_length)),
                   VSub(c1, Vec(0, capsule1.half_length))}
      centers2 == {VAdd(c2, Vec(0, capsule2.half_length)),
                   VSub(c2, Vec(0, capsule2.half_length))}
      r1 == capsule1.radius
      r2 == capsule2.radius
  IN  \/ rectangles_intersect(c1, hs1, c2, hs2)
      \/ \E center_1 \in centers1 :
           \/ rectangle_circle_intersect(c2, hs2, center_1, r1)
           \/ \E center_2 \in centers2 :
                \/ rectangle_circle_intersect(c1, hs1, center_2, r2)
                \/ circles_intersect(center_1, r1, center_2, r2)

\* intersects with the arm of a capsule and a rectangle taken from the arm
\* of a circle and a rectangle: the capsule counts as a circle around its
\* position
intersects_capsule_as_circle(self, other) ==
  CASE self.shape.kind = "Quad" /\ other.shape.kind = "Quad" ->
         rectangles_intersect(self.pos, self.shape.half_size,
                              other.pos, other.shape.half_size)
    [] self.shape.kind = "Quad" /\ other.shape.kind = "Circle" ->
         rectangle_circle_intersect(self.pos, self.shape.half_size,
                                    other.pos, other.shape.radius)
    [] self.shape.kind = "Quad" /\ other.shape.kind = "Capsule" ->
         rectangle_capsule_intersect(self.pos, self.shape.half_size,
                                     other.pos, other.shape)
    [] self.shape.kind = "Circle" /\ other.shape.kind = "Quad" ->
         rectangle_circle_intersect(other.pos, other.shape.half_size,
                                    self.pos, self.shape.radius)
    [] self.shape.kind = "Circle" /\ other.shape.kind = "Circle" ->
         circles_intersect(self.pos, self.shape.radius,
                           other.pos, other.shape.radius)
    [] self.shape.kind = "Circle" /\ other.shape.kind = "Capsule" ->
         circle_capsule_intersect(self.pos, self.shape.radius,
                                  other.pos, other.shape)
    [] self.shape.kind = "Capsule" /\ other.shape.kind = "Quad" ->
         rectangle_circle_intersect(other.pos, other.shape.half_size,
                                    self.pos, self.shape.radius)
    [] self.shape.kind = "Capsule" /\ other.shape.kind = "Circle" ->
         circle_capsule_intersect(other.pos, other.shape.radius,
                                  self.pos, self.shape)
    [] self.shape.kind = "Capsule" /\ other.shape.kind = "Capsule" ->
         capsules_intersect(self.pos, self.shape, other.pos, other.shape)

\* QuadVal::intersects
intersects(self, other) ==
  CASE self.shape.kind = "Quad" /\ other.shape.kind = "Quad" ->
         rectangles_intersect(self.pos, self.shape.half_size,
                              other.pos, other.shape.half_size)
    [] self.shape.kind = "Quad" /\ other.shape.kind = "Circle" ->
         rectangle_circle_intersect(self.pos, self.shape.half_size,
                                    other.pos, other.shape.radius)
    [] self.shape.kind = "Quad" /\ other.shape.kind = "Capsule" ->
         rectangle_capsule_intersect(self.pos, self.shape.half_size,
                                     other.pos, other.shape)
    [] self.shape.kind = "Circle" /\ other.shape.kind = "Quad" ->
         rectangle_circle_intersect(other.pos, other.shape.half_size,
                                    self.pos, self.shape.radius)
    [] self.shape.kind = "Circle" /\ other.shape.kind = "Circle" ->
         circles_intersect(self.pos, self.shape.radius,
                           other.pos, other.shape.radius)
    [] self.shape.kind = "Circle" /\ other.shape.kind = "Capsule" ->
         circle_capsule_intersect(self.pos, self.shape.radius,
                                  other.pos, other.shape)
    [] self.shape.kind = "Capsule" /\ other.shape.kind = "Quad" ->
         rectangle_capsule_intersect(other.pos, other.shape.half_size,
                                     self.pos, self.shape)
    [] self.shape.kind = "Capsule" /\ other.shape.kind = "Circle" ->
         circle_capsule_intersect(other.pos, other.shape.radius,
                                  self.pos, self.shape)
    [] self.shape.kind = "Capsule" /\ other.shape.kind = "Capsule" ->
         capsules_intersect(self.pos, self.shape, other.pos, other.shape)

\* ------------------------------------------------------------------------
\* Quadrant helpers (mod.rs)

None == << >>

Some(x) == << x >>

\* compute_bounds with the child placed by the half size and sized by a
\* quarter of the parent
compute_bounds_quarter_size(parent, idx) ==
  LET origin == Vec(parent.min.x, parent.min.y)
      half == RectHalfSize(parent)
      child_size == Vec(half.x \div 2, half.y \div 2)
  IN  CASE idx = 0 -> FromCorners(origin, VAdd(origin, child_size))
        [] idx = 1 ->
             FromCorners(VAdd(origin, Vec(half.x, 0)),
                         VAdd(origin, Vec(half.x + child_size.x, child_size.y)))
        [] idx = 2 ->
             FromCorners(VAdd(origin, half),
                         VAdd(origin, VAdd(half, child_size)))
        [] idx = 3 ->
             FromCorners(VAdd(origin, Vec(0, half.y)),
                         VAdd(origin, Vec(child_size.x, half.y + child_size.y)))

\* compute_bounds with the quadrants in clockwise order
compute_bounds_clockwise(parent, idx) ==
  LET origin == Vec(parent.min.x, parent.min.y)
      child_size == RectHalfSize(parent)
  IN  CASE idx = 0 -> FromCorners(origin, VAdd(origin, child_size))
        [] idx = 3 ->
             FromCorners(VAdd(origin, Vec(child_size.x, 0)),
                         VAdd(origin, Vec(child_size.x * 2, child_size.y)))
        [] idx = 2 ->
             FromCorners(VAdd(origin, child_size),
                         VAdd(origin, Vec(child_size.x * 2, child_size.y * 2)))
        [] idx = 1 ->
             FromCorners(VAdd(origin, Vec(0, child_size.y)),
                         VAdd(origin, Vec(child_size.x, child_size.y * 2)))

compute_bounds(parent, idx) ==
  LET origin == Vec(parent.min.x, parent.min.y)
      child_size == RectHalfSize(parent)
  IN  CASE idx = 0 -> FromCorners(origin, VAdd(origin, child_size))
        [] idx = 1 ->
             FromCorners(VAdd(origin, Vec(child_size.x, 0)),
                         VAdd(origin, Vec(child_size.x * 2, child_size.y)))
        [] idx = 2 ->
             FromCorners(VAdd(origin, child_size),
                         VAdd(origin, Vec(child_size.x * 2, child_size.y * 2)))
        [] idx = 3 ->
             FromCorners(VAdd(origin, Vec(0, child_size.y)),
                         VAdd(origin, Vec(child_size.x, child_size.y * 2)))

\* find_quadrant with <= for < in the tests of max against the center
find_quadrant_closed_below(bounds, val) ==
  LET center == RectCenter(bounds)
      shape == aabb(val)
  IN  IF ~is_contained_by(val, bounds) THEN None
      ELSE IF shape.max.x <= center.x
        THEN IF shape.max.y <= center.y THEN Some(0)
             ELSE IF shape.min.y >= center.y THEN Some(3)
             ELSE None
      ELSE IF shape.min.x >= center.x
        THEN IF shape.max.y <= center.y THEN Some(1)
             ELSE IF shape.min.y >= center.y THEN Some(2)
             ELSE None
      ELSE None

\* find_quadrant without the early return for a value out of bounds
find_quadrant_unchecked(bounds, val) ==
  LET center == RectCenter(bounds)
      shape == aabb(val)
  IN  IF shape.max.x < center.x
        THEN IF shape.max.y < center.y THEN Some(0)
             ELSE IF shape.min.y >= center.y THEN Some(3)
             ELSE None
      ELSE IF shape.min.x >= center.x
        THEN IF shape.max.y < center.y THEN Some(1)
             ELSE IF shape.min.y >= center.y THEN Some(2)
             ELSE None
      ELSE None

\* Option<usize>; quadrants are numbered 0..3 as in the source
find_quadrant(bounds, val) ==
  LET center == RectCenter(bounds)
      shape == aabb(val)
  IN  IF ~is_contained_by(val, bounds) THEN None
      ELSE IF shape.max.x < center.x
        THEN IF shape.max.y < center.y THEN Some(0)
             ELSE IF shape.min.y >= center.y THEN Some(3)
             ELSE None
      ELSE IF shape.min.x >= center.x
        THEN IF shape.max.y < center.y THEN Some(1)
             ELSE IF shape.min.y >= center.y THEN Some(2)
             ELSE None
      ELSE None

\* ------------------------------------------------------------------------
\* QNode (mod.rs).  A node is [children: 4 x Option<QNode>, values: Seq(T)];
\* quadrant idx of the source is children[idx + 1] here.

Ok(node) == [ok |-> TRUE, node |-> node]

\* the call panicked; the node is not used any more
Panicked(node) == [ok |-> FALSE, node |-> node]

QNodeNew == [children |-> << None, None, None, None >>, values |-> << >>]

is_leaf(self) == self.children[1] = None

\* the values of items that go to quadrant q (an Option<usize>), in order
InQuadrant(bounds, items, q) ==
  LET Test(v) == find_quadrant(bounds, v) = q
  IN  SelectSeq(items, Test)

\* [Vec<T>; 5]: the four quadrants, then the values that fit in none of them
group_by_quadrant(bounds, items) ==
  << InQuadrant(bounds, items, Some(0)), InQuadrant(bounds, items, Some(1)),
     InQuadrant(bounds, items, Some(2)), InQuadrant(bounds, items, Some(3)),
     InQuadrant(bounds, items, None) >>

\* subdivide that makes the children and leaves the values where they are
subdivide_keeps_values(self, bounds) ==
  IF ~is_leaf(self) THEN Panicked(self)
  ELSE Ok([children |-> << Some(QNodeNew), Some(QNodeNew), Some(QNodeNew),
                          Some(QNodeNew) >>,
           values |-> self.values])

subdivide(self, bounds) ==
  IF ~is_leaf(self) THEN Panicked(self)
  ELSE
    LET old_values == self.values
        Child(idx) ==
          Some([QNodeNew EXCEPT !.values = InQuadrant(bounds, old_values, Some(idx))])
    IN  Ok([children |-> << Child(0), Child(1), Child(2), Child(3) >>,
            values |-> InQuadrant(bounds, old_values, None)])

RECURSIVE insert(_, _, _, _)
\* insert with <= for <: a leaf takes one value more than the threshold
insert_over_threshold(self, bounds, depth, val) ==
  IF is_leaf(self)
  THEN IF depth >= MAX_DEPTH \/ Len(self.values) <= threshold
       THEN Ok([self EXCEPT !.values = Append(@, val)])
       ELSE LET s == subdivide(self, bounds)
            IN  IF ~s.ok THEN s ELSE insert(s.node, bounds, depth, val)
  ELSE
    LET q == find_quadrant(bounds, val)
    IN  IF q # None
        THEN LET idx == q[1]
                 child == self.children[idx + 1]
             IN  IF child = None THEN Panicked(self)
                 ELSE LET r == insert(child[1], compute_bounds(bounds, idx),
                                      depth + 1, val)
                      IN  [ok |-> r.ok,
                           node |-> [self EXCEPT !.children[idx + 1] = Some(r.node)]]
        ELSE Ok([self EXCEPT !.values = Append(@, val)])

\* insert with > for >=: a leaf at MAX_DEPTH is subdivided once more
insert_past_max_depth(self, bounds, depth, val) ==
  IF is_leaf(self)
  THEN IF depth > MAX_DEPTH \/ Len(self.values) < threshold
       THEN Ok([self EXCEPT !.values = Append(@, val)])
       ELSE LET s == subdivide(self, bounds)
            IN  IF ~s.ok THEN s ELSE insert(s.node, bounds, depth, val)
  ELSE
    LET q == find_quadrant(bounds, val)
    IN  IF q # None
        THEN LET idx == q[1]
                 child == self.children[idx + 1]
             IN  IF child = None THEN Panicked(self)
                 ELSE LET r == insert(child[1], compute_bounds(bounds, idx),
                                      depth + 1, val)
                      IN  [ok |-> r.ok,
                           node |-> [self EXCEPT !.children[idx + 1] = Some(r.node)]]
        ELSE Ok([self EXCEPT !.values = Append(@, val)])

insert(self, bounds, depth, val) ==
  IF is_leaf(self)
  THEN IF depth >= MAX_DEPTH \/ Len(self.values) < threshold
       THEN Ok([self EXCEPT !.values = Append(@, val)])
       ELSE LET s == subdivide(self, bounds)
            IN  IF ~s.ok THEN s ELSE insert(s.node, bounds, depth, val)
  ELSE
    LET q == find_quadrant(bounds, val)
    IN  IF q # None
        THEN LET idx == q[1]
                 child == self.children[idx + 1]
             IN  IF child = None THEN Panicked(self)
                 ELSE LET r == insert(child[1], compute_bounds(bounds, idx),
                                      depth + 1, val)
                      IN  [ok |-> r.ok,
                           node |-> [self EXCEPT !.children[idx + 1] = Some(r.node)]]
        ELSE Ok([self EXCEPT !.values = Append(@, val)])

RECURSIVE insert_many(_, _, _, _)
RECURSIVE insert_groups(_, _, _, _, _)
\* the loop of insert_many over the five groups, from group i on
insert_groups(self, bounds, depth, groups, i) ==
  IF i > 4 THEN Ok(self)
  ELSE IF i = 4
    THEN insert_groups([self EXCEPT !.values = @ \o groups[5]],
                       bounds, depth, groups, i + 1)
  ELSE
    LET child == self.children[i + 1]
    IN  IF child = None THEN Panicked(self)
        ELSE IF groups[i + 1] = << >>
          THEN insert_groups(self, bounds, depth, groups, i + 1)
        ELSE
          LET r == insert_many(child[1], compute_bounds(bounds, i),
                               depth + 1, groups[i + 1])
              next == [self EXCEPT !.children[i + 1] = Some(r.node)]
          IN  IF ~r.ok THEN Panicked(next)
              ELSE insert_groups(next, bounds, depth, groups, i + 1)

\* insert_many with < for <=: a leaf that the items fill up to the
\* threshold is subdivided
insert_many_below_threshold(self, bounds, depth, items) ==
  IF is_leaf(self)
  THEN IF Len(self.values) + Len(items) < threshold \/ depth >= MAX_DEPTH
       THEN Ok([self EXCEPT !.values = @ \o items])
       ELSE LET s == subdivide(self, bounds)
            IN  IF ~s.ok THEN s ELSE insert_many(s.node, bounds, depth, items)
  ELSE insert_groups(self, bounds, depth, group_by_quadrant(bounds, items), 0)

insert_many(self, bounds, depth, items) ==
  IF is_leaf(self)
  THEN IF Len(self.values) + Len(items) <= threshold \/ depth >= MAX_DEPTH
       THEN Ok([self EXCEPT !.values = @ \o items])
       ELSE LET s == subdivide(self, bounds)
            IN  IF ~s.ok THEN s ELSE insert_many(s.node, bounds, depth, items)
  ELSE insert_groups(self, bounds, depth, group_by_quadrant(bounds, items), 0)

\* the index of the first element of values equal to val, 0 if there is none
RECURSIVE position(_, _, _)
position(values, val, i) ==
  IF i > Len(values) THEN 0
  ELSE IF values[i] = val THEN i
  ELSE position(values, val, i + 1)

\* remove_found_val without the swap: the last value is popped
remove_found_val_pops_last(self, val) ==
  LET i == position(self.values, val, 1)
      last == Len(self.values)
  IN  IF i = 0 THEN self
      ELSE [self EXCEPT !.values = SubSeq(self.values, 1, last - 1)]

\* swap the found value with the last one and pop it
remove_found_val(self, val) ==
  LET i == position(self.values, val, 1)
      last == Len(self.values)
      swapped == IF i # last THEN [self.values EXCEPT ![i] = self.values[last]]
                 ELSE self.values
  IN  IF i = 0 THEN self
      ELSE [self EXCEPT !.values = SubSeq(swapped, 1, last - 1)]

\* the first loop of try_merge, from child i on: "panic" when a child is
\* missing, "no" at the first child that is not a leaf, else the total length
RECURSIVE merge_len(_, _, _)
merge_len(self, i, values_len) ==
  IF i > 4 THEN [res |-> "len", len |-> values_len]
  ELSE IF self.children[i] = None THEN [res |-> "panic", len |-> values_len]
  ELSE IF ~is_leaf(self.children[i][1]) THEN [res |-> "no", len |-> values_len]
  ELSE merge_len(self, i + 1, values_len + Len(self.children[i][1].values))

\* try_merge with < for <=: a total of exactly the threshold is not folded
try_merge_below_threshold(self) ==
  IF is_leaf(self) THEN [ok |-> FALSE, node |-> self, merged |-> FALSE]
  ELSE
    LET m == merge_len(self, 1, Len(self.values))
    IN  IF m.res = "panic" THEN [ok |-> FALSE, node |-> self, merged |-> FALSE]
        ELSE IF m.res = "no" THEN [ok |-> TRUE, node |-> self, merged |-> FALSE]
        ELSE IF m.len < threshold
          THEN [ok |-> TRUE,
                node |-> [children |-> << None, None, None, None >>,
                          values |-> self.values
                                     \o self.children[1][1].values
                                     \o self.children[2][1].values
                                     \o self.children[3][1].values
                                     \o self.children[4][1].values],
                merged |-> TRUE]
        ELSE [ok |-> TRUE, node |-> self, merged |-> FALSE]

\* try_merge that resets only the child that is_leaf looks at
try_merge_resets_first_child(self) ==
  IF is_leaf(self) THEN [ok |-> FALSE, node |-> self, merged |-> FALSE]
  ELSE
    LET m == merge_len(self, 1, Len(self.values))
    IN  IF m.res = "panic" THEN [ok |-> FALSE, node |-> self, merged |-> FALSE]
        ELSE IF m.res = "no" THEN [ok |-> TRUE, node |-> self, merged |-> FALSE]
        ELSE IF m.len <= threshold
          THEN [ok |-> TRUE,
                node |-> [children |-> [self.children EXCEPT ![1] = None],
                          values |-> self.values
                                     \o self.children[1][1].values
                                     \o self.children[2][1].values
                                     \o self.children[3][1].values
                                     \o self.children[4][1].values],
                merged |-> TRUE]
        ELSE [ok |-> TRUE, node |-> self, merged |-> FALSE]

\* [ok, node, merged]: merged is the bool that try_merge returns
try_merge(self) ==
  IF is_leaf(self) THEN [ok |-> FALSE, node |-> self, merged |-> FALSE]
  ELSE
    LET m == merge_len(self, 1, Len(self.values))
    IN  IF m.res = "panic" THEN [ok |-> FALSE, node |-> self, merged |-> FALSE]
        ELSE IF m.res = "no" THEN [ok |-> TRUE, node |-> self, merged |-> FALSE]
        ELSE IF m.len <= threshold
          THEN [ok |-> TRUE,
                node |-> [children |-> << None, None, None, None >>,
                          values |-> self.values
                                     \o self.children[1][1].values
                                     \o self.children[2][1].values
                                     \o self.children[3][1].values
                                     \o self.children[4][1].values],
                merged |-> TRUE]
        ELSE [ok |-> TRUE, node |-> self, merged |-> FALSE]

\* [ok, node, merge]: merge is the bool that remove returns to the parent
RECURSIVE remove(_, _, _)
remove(self, bounds, val) ==
  IF is_leaf(self)
  THEN [ok |-> TRUE, node |-> remove_found_val(self, val), merge |-> TRUE]
  ELSE
    LET q == find_quadrant(bounds, val)
    IN  IF q # None
        THEN LET idx == q[1]
                 child == self.children[idx + 1]
             IN  IF child = None
                 THEN [ok |-> FALSE, node |-> self, merge |-> FALSE]
                 ELSE
                   LET r == remove(child[1], compute_bounds(bounds, idx), val)
                       next == [self EXCEPT !.children[idx + 1] = Some(r.node)]
                   IN  IF ~r.ok THEN [ok |-> FALSE, node |-> next, merge |-> FALSE]
                       ELSE IF r.merge
                         THEN LET m == try_merge(next)
                              IN  [ok |-> m.ok, node |-> m.node, merge |-> m.merged]
                       \* unreachable!("value should always be contained ...")
                       ELSE [ok |-> FALSE, node |-> next, merge |-> FALSE]
        ELSE [ok |-> TRUE, node |-> remove_found_val(self, val), merge |-> FALSE]

RECURSIVE clear(_)
RECURSIVE clear_children(_, _)
\* the while-let loop of clear: it stops at the first missing child
clear_children(self, i) ==
  IF i > 4 \/ self.children[i] = None THEN Ok(self)
  ELSE LET r == clear(self.children[i][1])
           next == [self EXCEPT !.children[i] = Some(r.node)]
       IN  IF ~r.ok THEN Panicked(next) ELSE clear_children(next, i + 1)

\* clear without the merge at the end: the cleared children stay
clear_keeps_children(self) == clear_children([self EXCEPT !.values = << >>], 1)

clear(self) ==
  LET c == clear_children([self EXCEPT !.values = << >>], 1)
  IN  IF ~c.ok THEN c
      ELSE IF ~is_leaf(c.node)
        THEN LET m == try_merge(c.node) IN [ok |-> m.ok, node |-> m.node]
      ELSE c

\* [ok, out]: out is contained_values after the call
RECURSIVE query(_, _, _, _)
RECURSIVE query_children(_, _, _, _, _)
\* the loop over the children from the last quadrant to the first
query_children_last_first(self, quad_bounds, query_bounds, i, out) ==
  IF i > 3 THEN [ok |-> TRUE, out |-> out]
  ELSE
    LET child_bounds == compute_bounds(quad_bounds, 3 - i)
    IN  IF ~RectIsEmpty(RectIntersect(query_bounds, child_bounds))
        THEN IF self.children[4 - i] = None THEN [ok |-> FALSE, out |-> out]
             ELSE LET r == query(self.children[4 - i][1], child_bounds,
                                 query_bounds, out)
                  IN  IF ~r.ok THEN r
                      ELSE query_children(self, quad_bounds, query_bounds,
                                          i + 1, r.out)
        ELSE query_children(self, quad_bounds, query_bounds, i + 1, out)

\* the loop with the closed test: a child whose bounds only touch the region
\* is entered too
query_children_touching(self, quad_bounds, query_bounds, i, out) ==
  IF i > 3 THEN [ok |-> TRUE, out |-> out]
  ELSE
    LET child_bounds == compute_bounds(quad_bounds, i)
    IN  IF rects_intersect(query_bounds, child_bounds)
        THEN IF self.children[i + 1] = None THEN [ok |-> FALSE, out |-> out]
             ELSE LET r == query(self.children[i + 1][1], child_bounds,
                                 query_bounds, out)
                  IN  IF ~r.ok THEN r
                      ELSE query_children(self, quad_bounds, query_bounds,
                                          i + 1, r.out)
        ELSE query_children(self, quad_bounds, query_bounds, i + 1, out)

\* the loop of query over the children, from quadrant i on
query_children(self, quad_bounds, query_bounds, i, out) ==
  IF i > 3 THEN [ok |-> TRUE, out |-> out]
  ELSE
    LET child_bounds == compute_bounds(quad_bounds, i)
    IN  IF ~RectIsEmpty(RectIntersect(query_bounds, child_bounds))
        THEN IF self.children[i + 1] = None THEN [ok |-> FALSE, out |-> out]
             ELSE LET r == query(self.children[i + 1][1], child_bounds,
                                 query_bounds, out)
                  IN  IF ~r.ok THEN r
                      ELSE query_children(self, quad_bounds, query_bounds,
                                          i + 1, r.out)
        ELSE query_children(self, quad_bounds, query_bounds, i + 1, out)

\* query without the assertion
query_unasserted(self, quad_bounds, query_bounds, contained_values) ==
  LET Hit(val) == intersects(val, RectAsQuadVal(query_bounds))
      out == contained_values \o SelectSeq(self.values, Hit)
  IN  IF ~is_leaf(self)
      THEN query_children(self, quad_bounds, query_bounds, 0, out)
      ELSE [ok |-> TRUE, out |-> out]

\* query with the coarse test: the bounding box instead of the shape
query_by_aabb(self, quad_bounds, query_bounds, contained_values) ==
  IF RectIsEmpty(RectIntersect(quad_bounds, query_bounds))
  THEN [ok |-> FALSE, out |-> contained_values]
  ELSE
    LET Hit(val) == rects_intersect(aabb(val), query_bounds)
        out == contained_values \o SelectSeq(self.values, Hit)
    IN  IF ~is_leaf(self)
        THEN query_children(self, quad_bounds, query_bounds, 0, out)
        ELSE [ok |-> TRUE, out |-> out]

query(self, quad_bounds, query_bounds, contained_values) ==
  IF RectIsEmpty(RectIntersect(quad_bounds, query_bounds))
  THEN [ok |-> FALSE, out |-> contained_values]
  ELSE
    LET Hit(val) == intersects(val, RectAsQuadVal(query_bounds))
        out == contained_values \o SelectSeq(self.values, Hit)
    IN  IF ~is_leaf(self)
        THEN query_children(self, quad_bounds, query_bounds, 0, out)
        ELSE [ok |-> TRUE, out |-> out]

\* the pairs << val, other >> for the values other of values[from..to] that
\* val intersects, in order
RECURSIVE pairs_with(_, _, _, _)
pairs_with(val, values, from, to) ==
  IF from > to THEN << >>
  ELSE (IF intersects(val, values[from]) THEN << << val, values[from] >> >>
        ELSE << >>)
       \o pairs_with(val, values, from + 1, to)

\* the double loop of find_all_intersections over the node's own values
RECURSIVE own_pairs(_, _)
own_pairs(values, i) ==
  IF i > Len(values) THEN << >>
  ELSE pairs_with(values[i], values, 1, i - 1) \o own_pairs(values, i + 1)

RECURSIVE find_intersections_in_descendants(_, _, _)
RECURSIVE descendants_children(_, _, _, _)
descendants_children(self, val, i, out) ==
  IF i > 4 THEN [ok |-> TRUE, out |-> out]
  ELSE IF self.children[i] = None THEN [ok |-> FALSE, out |-> out]
  ELSE LET r == find_intersections_in_descendants(self.children[i][1], val, out)
       IN  IF ~r.ok THEN r ELSE descendants_children(self, val, i + 1, r.out)

find_intersections_in_descendants(self, val, intersections) ==
  LET out == intersections \o pairs_with(val, self.values, 1, Len(self.values))
  IN  IF ~is_leaf(self) THEN descendants_children(self, val, 1, out)
      ELSE [ok |-> TRUE, out |-> out]

\* the loop "for val in self.values" over one child, from value j on
RECURSIVE values_in_child(_, _, _, _)
values_in_child(child, values, j, out) ==
  IF j > Len(values) THEN [ok |-> TRUE, out |-> out]
  ELSE LET r == find_intersections_in_descendants(child, values[j], out)
       IN  IF ~r.ok THEN r ELSE values_in_child(child, values, j + 1, r.out)

RECURSIVE find_all_intersections(_, _)
RECURSIVE intersections_children(_, _, _)
\* the loop over the children without the pass of the node's own values
\* through the subtree of each child
intersections_children_subtrees_only(self, i, out) ==
  IF i > 4 THEN [ok |-> TRUE, out |-> out]
  ELSE IF self.children[i] = None THEN [ok |-> FALSE, out |-> out]
  ELSE LET a == find_all_intersections(self.children[i][1], out)
       IN  IF ~a.ok THEN a ELSE intersections_children(self, i + 1, a.out)

intersections_children(self, i, out) ==
  IF i > 4 THEN [ok |-> TRUE, out |-> out]
  ELSE IF self.children[i] = None THEN [ok |-> FALSE, out |-> out]
  ELSE
    LET child == self.children[i][1]
        r == values_in_child(child, self.values, 1, out)
    IN  IF ~r.ok THEN r
        ELSE LET a == find_all_intersections(child, r.out)
             IN  IF ~a.ok THEN a ELSE intersections_children(self, i + 1, a.out)

find_all_intersections(self, intersections) ==
  LET out == intersections \o own_pairs(self.values, 2)
  IN  IF ~is_leaf(self) THEN intersections_children(self, 1, out)
      ELSE [ok |-> TRUE, out |-> out]

\* the scan of a leaf: the first value at the least distance, from value i on
RECURSIVE closest(_, _, _, _)
\* the scan with <= for <: the last value at the least distance
closest_takes_last(values, pos, i, best) ==
  IF i > Len(values) THEN best
  ELSE closest(values, pos, i + 1,
               IF DistSq(pos, values[i].pos) <= DistSq(pos, best.pos)
               THEN values[i] ELSE best)

closest(values, pos, i, best) ==
  IF i > Len(values) THEN best
  ELSE closest(values, pos, i + 1,
               IF DistSq(pos, values[i].pos) < DistSq(pos, best.pos)
               THEN values[i] ELSE best)

\* [ok, res]: res is the Option<&T>
RECURSIVE nearest(_, _, _)
nearest(self, bounds, pos) ==
  IF is_leaf(self)
  THEN IF self.values = << >> THEN [ok |-> TRUE, res |-> None]
       ELSE [ok |-> TRUE, res |-> Some(closest(self.values, pos, 2, self.values[1]))]
  ELSE
    LET q == find_quadrant(bounds, PointAsQuadVal(pos))
    IN  IF q = None THEN [ok |-> TRUE, res |-> None]
        ELSE IF self.children[q[1] + 1] = None THEN [ok |-> FALSE, res |-> None]
        ELSE nearest(self.children[q[1] + 1][1], bounds, pos)

\* ------------------------------------------------------------------------
\* Quadtree<T> and its callers.  T is QuadVal.

\* the side of the tree bounds: (0,0)-(8U,8U), as the (0,0)-(8,8) of the tests
TreeSize == 2 ^ (MAX_DEPTH + 1)

U == TreeSize \div 8

TreeBounds == FromCorners(Vec(0, 0), Vec(TreeSize, TreeSize))

\* the values the callers insert and remove
PtA == PointAsQuadVal(Vec(U, U))

PtB == PointAsQuadVal(Vec(3 * U, U))

\* the centre of the tree bounds
PtC == PointAsQuadVal(Vec(4 * U, 4 * U))

\* straddles the centre of quadrant 0 of the root; PtA and PtB are corners
QuadD == QuadVal(Vec(2 * U, 2 * U), Quad(U, U))

\* straddles the centre of the root
QuadE == QuadVal(Vec(4 * U, 4 * U), Quad(U, U))

\* not contained in the tree bounds
CircF == QuadVal(Vec(0, 0), Circle(U))

CapG == QuadVal(Vec(6 * U, 2 * U), Capsule(U \div 2, U))

Values == {PtA, PtB, PtC, QuadD, QuadE, CircF, CapG}

Batches ==
  { << PtA, PtB, QuadD >>, << PtA, PtA, PtA >>, << PtC, QuadE >>,
    << CircF, CapG >>, << QuadE, CircF, PtA >>, << PtB, CapG >>,
    << QuadD, QuadD >>, << PtA, PtC, CapG, PtB >> }

RectOf(x0, y0, x1, y1) == FromCorners(Vec(x0 * U, y0 * U), Vec(x1 * U, y1 * U))

\* the query regions: quadrant 0 of the root, its quadrant 0, the whole tree,
\* a box over the lower left corner, a box over the lower half, a box that
\* several values only touch, quadrant 1 of the root; then a region left of
\* the tree, one that touches it along an edge, and a region without area
\* inside it
Regions ==
  { RectOf(0, 0, 4, 4), RectOf(0, 0, 2, 2), RectOf(0, 0, 8, 8),
    RectOf(-2, -2, 2, 2), RectOf(2, 0, 6, 4), RectOf(1, 1, 3, 3),
    RectOf(4, 0, 8, 4),
    RectOf(-4, 0, -2, 8), RectOf(8, 0, 10, 8), RectOf(1, 1, 1, 1) }

Points ==
  { Vec(0, 0), Vec(8 * U, 8 * U), Vec(3 * U, 6 * U), Vec(4 * U, 4 * U),
    Vec(2 * U, 2 * U), Vec(-U, -U), Vec(3 * U, U) }

VARIABLES
  root,     \* Quadtree::root (Quadtree::bounds is TreeBounds)
  status,   \* "ok", or "panicked" once a call has panicked
  op,       \* the last call: its name, its argument and what it returned
  pre       \* the root the last call started from

vars == << root, status, op, pre, threshold >>

\* the number of entries stored in the subtree of node
RECURSIVE Size(_)
Size(node) ==
  Len(node.values)
  + (IF node.children[1] = None THEN 0 ELSE Size(node.children[1][1]))
  + (IF node.children[2] = None THEN 0 ELSE Size(node.children[2][1]))
  + (IF node.children[3] = None THEN 0 ELSE Size(node.children[3][1]))
  + (IF node.children[4] = None THEN 0 ELSE Size(node.children[4][1]))

Outcome(ok) == IF ok THEN "ok" ELSE "panicked"

\* Quadtree::new
Init ==
  /\ root = QNodeNew
  /\ status = "ok"
  /\ op = [name |-> "new", arg |-> << >>, ret |-> << >>]
  /\ pre = QNodeNew
  /\ threshold = SmallThreshold

\* Quadtree::insert
Insert(val) ==
  /\ status = "ok"
  /\ Size(root) < MaxValues
  /\ LET r == insert(root, TreeBounds, 0, val)
     IN  /\ root' = r.node
         /\ status' = Outcome(r.ok)
  /\ op' = [name |-> "insert", arg |-> val, ret |-> << >>]
  /\ pre' = root
  /\ UNCHANGED threshold

\* Quadtree::insert_many
InsertMany(items) ==
  /\ status = "ok"
  /\ Size(root) + Len(items) <= MaxValues
  /\ LET r == insert_many(root, TreeBounds, 0, items)
     IN  /\ root' = r.node
         /\ status' = Outcome(r.ok)
  /\ op' = [name |-> "insert_many", arg |-> items, ret |-> << >>]
  /\ pre' = root
  /\ UNCHANGED threshold

\* Quadtree::remove
Remove(val) ==
  /\ status = "ok"
  /\ LET r == remove(root, TreeBounds, val)
     IN  /\ root' = r.node
         /\ status' = Outcome(r.ok)
  /\ op' = [name |-> "remove", arg |-> val, ret |-> << >>]
  /\ pre' = root
  /\ UNCHANGED threshold

\* Quadtree::clear
Clear ==
  /\ status = "ok"
  /\ LET r == clear(root)
     IN  /\ root' = r.node
         /\ status' = Outcome(r.ok)
  /\ op' = [name |-> "clear", arg |-> << >>, ret |-> << >>]
  /\ pre' = root
  /\ UNCHANGED threshold

\* Quadtree::query
Query(query_bounds) ==
  /\ status = "ok"
  /\ LET r == query(root, TreeBounds, query_bounds, << >>)
     IN  /\ status' = Outcome(r.ok)
         /\ op' = [name |-> "query", arg |-> query_bounds, ret |-> r.out]
  /\ pre' = root
  /\ UNCHANGED << root, threshold >>

\* Quadtree::find_all_intersections
FindAllIntersections ==
  /\ status = "ok"
  /\ LET r == find_all_intersections(root, << >>)
     IN  /\ status' = Outcome(r.ok)
         /\ op' = [name |-> "find_all_intersections", arg |-> << >>, ret |-> r.out]
  /\ pre' = root
  /\ UNCHANGED << root, threshold >>

\* Quadtree::nearest
Nearest(pos) ==
  /\ status = "ok"
  /\ LET r == nearest(root, TreeBounds, pos)
     IN  /\ status' = Outcome(r.ok)
         /\ op' = [name |-> "nearest", arg |-> pos, ret |-> r.res]
  /\ pre' = root
  /\ UNCHANGED << root, threshold >>

Next ==
  \/ \E val \in Values : Insert(val)
  \/ \E items \in Batches : InsertMany(items)
  \/ \E val \in Values : Remove(val)
  \/ Clear
  \/ \E query_bounds \in Regions : Query(query_bounds)
  \/ FindAllIntersections
  \/ \E pos \in Points : Nearest(pos)

Spec == Init /\ [][Next]_vars

\* ------------------------------------------------------------------------
\* The calls that build the tree, without the calls that only read it: the
\* trees are the trees of Spec.

BuildNext ==
  \/ \E val \in Values : Insert(val)
  \/ \E items \in Batches : InsertMany(items)
  \/ \E val \in Values : Remove(val)
  \/ Clear

BuildSpec == Init /\ [][BuildNext]_vars

\* ------------------------------------------------------------------------
\* test::quadtree_insert_remove_works, up to its assertions on the split: a tree
\* built with THRESHOLD takes pts in one insert_many and then the points of
\* threshold_pts one at a time; the read-only calls may come in between.

pts ==
  << PointAsQuadVal(Vec(U, U)), PointAsQuadVal(Vec(7 * U, 7 * U)),
     PointAsQuadVal(Vec(3 * U, 5 * U)),
     PointAsQuadVal(Vec((13 * U) \div 2, (3 * U) \div 2)),
     PointAsQuadVal(Vec(4 * U, 4 * U)) >>

\* (1..5).flat_map(|x| (1..5).map(move |y| vec2(x, y)))
threshold_pts ==
  [k \in 1..16 |->
     PointAsQuadVal(Vec((1 + ((k - 1) \div 4)) * U, (1 + ((k - 1) % 4)) * U))]

SplitInit ==
  /\ root = QNodeNew
  /\ status = "ok"
  /\ op = [name |-> "new", arg |-> << >>, ret |-> << >>]
  /\ pre = QNodeNew
  /\ threshold = THRESHOLD

\* qtree.insert_many(&pts)
SplitInsertMany ==
  /\ status = "ok"
  /\ Size(root) = 0
  /\ LET r == insert_many(root, TreeBounds, 0, pts)
     IN  /\ root' = r.node
         /\ status' = Outcome(r.ok)
  /\ op' = [name |-> "insert_many", arg |-> pts, ret |-> << >>]
  /\ pre' = root
  /\ UNCHANGED threshold

\* for x in threshold_pts.clone() { qtree.insert(x); }
SplitInsert ==
  /\ status = "ok"
  /\ Size(root) >= Len(pts)
  /\ Size(root) < Len(pts) + Len(threshold_pts)
  /\ LET val == threshold_pts[Size(root) - Len(pts) + 1]
         r == insert(root, TreeBounds, 0, val)
     IN  /\ root' = r.node
         /\ status' = Outcome(r.ok)
         /\ op' = [name |-> "insert", arg |-> val, ret |-> << >>]
  /\ pre' = root
  /\ UNCHANGED threshold

SplitNext ==
  \/ SplitInsertMany
  \/ SplitInsert
  \/ \E query_bounds \in Regions : Query(query_bounds)
  \/ FindAllIntersections
  \/ \E pos \in Points : Nearest(pos)

SplitSpec == SplitInit /\ [][SplitNext]_vars

\* ------------------------------------------------------------------------
\* QuadVal::intersects by itself: the two values of a call are drawn at the
\* start and the call is made on them.

\* the shapes of the calls, as in test::intersect_helpers_work and
\* test::shapes_work: rectangles, circles (a point among them) and capsules
ShapeKinds ==
  { Quad(1, 1), Quad(2, 1), Circle(0), Circle(2), Circle(3),
    Capsule(1, 2), Capsule(2, 1) }

\* the positions of the calls
ShapePositions ==
  { Vec(0, 0), Vec(3, 0), Vec(3, 4), Vec(2, 2), Vec(0, 6), Vec(5, 6) }

ShapeValues == { QuadVal(p, s) : p \in ShapePositions, s \in ShapeKinds }

ShapeInit ==
  /\ root = QNodeNew
  /\ status = "ok"
  /\ op \in { [name |-> "intersects", arg |-> << a, b >>, ret |-> None] :
              a \in ShapeValues, b \in ShapeValues }
  /\ pre = QNodeNew
  /\ threshold = THRESHOLD

\* self.intersects(other), with self and other the values drawn
Intersects ==
  /\ status = "ok"
  /\ op.name = "intersects"
  /\ op.ret = None
  /\ op' = [op EXCEPT !.ret = Some(intersects(op.arg[1], op.arg[2]))]
  /\ UNCHANGED << root, status, pre, threshold >>

ShapeNext == Intersects

ShapeSpec == ShapeInit /\ [][ShapeNext]_vars

\* ------------------------------------------------------------------------
\* Definitions that the properties use

\* the number of elements of seq that equal x
RECURSIVE CountSeq(_, _)
CountSeq(seq, x) ==
  IF seq = << >> THEN 0
  ELSE (IF Head(seq) = x THEN 1 ELSE 0) + CountSeq(Tail(seq), x)

\* the number of entries equal to v stored in the subtree of node
RECURSIVE Count(_, _)
Count(node, v) ==
  CountSeq(node.values, v)
  + (IF node.children[1] = None THEN 0 ELSE Count(node.children[1][1], v))
  + (IF node.children[2] = None THEN 0 ELSE Count(node.children[2][1], v))
  + (IF node.children[3] = None THEN 0 ELSE Count(node.children[3][1], v))
  + (IF node.children[4] = None THEN 0 ELSE Count(node.children[4][1], v))

\* the number of levels below node
RECURSIVE Height(_)
Height(node) ==
  IF node.children[1] = None THEN 0
  ELSE 1 + Max2(Max2(Height(node.children[1][1]), Height(node.children[2][1])),
                Max2(Height(node.children[3][1]), Height(node.children[4][1])))

\* the rectangles a and b share a region of non-zero area
AreaOverlap(a, b) ==
  /\ Max2(a.min.x, b.min.x) < Min2(a.max.x, b.max.x)
  /\ Max2(a.min.y, b.min.y) < Min2(a.max.y, b.max.y)

\* the child quadrants of bounds, written out: 0 bottom left, 1 bottom right,
\* 2 top right, 3 top left
QuadrantBox(bounds, idx) ==
  LET cx == (bounds.min.x + bounds.max.x) \div 2
      cy == (bounds.min.y + bounds.max.y) \div 2
  IN  CASE idx = 0 -> [min |-> bounds.min, max |-> Vec(cx, cy)]
        [] idx = 1 -> [min |-> Vec(cx, bounds.min.y), max |-> Vec(bounds.max.x, cy)]
        [] idx = 2 -> [min |-> Vec(cx, cy), max |-> bounds.max]
        [] idx = 3 -> [min |-> Vec(bounds.min.x, cy), max |-> Vec(cx, bounds.max.y)]

\* the number of entries equal to v in the nodes of the subtree that are
\* linked to it by nodes whose boxes all share area with region
RECURSIVE CountOverlapping(_, _, _, _)
CountOverlapping(node, bounds, region, v) ==
  IF ~AreaOverlap(bounds, region) THEN 0
  ELSE CountSeq(node.values, v)
       + (IF node.children[1] = None THEN 0
          ELSE CountOverlapping(node.children[1][1], QuadrantBox(bounds, 0), region, v))
       + (IF node.children[2] = None THEN 0
          ELSE CountOverlapping(node.children[2][1], QuadrantBox(bounds, 1), region, v))
       + (IF node.children[3] = None THEN 0
          ELSE CountOverlapping(node.children[3][1], QuadrantBox(bounds, 2), region, v))
       + (IF node.children[4] = None THEN 0
          ELSE CountOverlapping(node.children[4][1], QuadrantBox(bounds, 3), region, v))

\* the closed rectangle rect has a point strictly inside region
RectMeetsInterior(rect, region) ==
  /\ rect.min.x < region.max.x /\ region.min.x < rect.max.x
  /\ rect.min.y < region.max.y /\ region.min.y < rect.max.y

\* the closed disc around c has a point strictly inside region
DiscMeetsInterior(c, r, region) ==
  LET close_pt == Vec(Max2(region.min.x, Min2(c.x, region.max.x)),
                      Max2(region.min.y, Min2(c.y, region.max.y)))
  IN  \/ /\ region.min.x < c.x /\ c.x < region.max.x
         /\ region.min.y < c.y /\ c.y < region.max.y
      \/ DistSq(close_pt, c) < r * r

\* the shape of v has a point strictly inside region
MeetsInterior(v, region) ==
  CASE v.shape.kind = "Quad" -> RectMeetsInterior(aabb(v), region)
    [] v.shape.kind = "Circle" -> DiscMeetsInterior(v.pos, v.shape.radius, region)
    [] v.shape.kind = "Capsule" ->
         \/ RectMeetsInterior(
              FromCenterHalfSize(v.pos, Vec(v.shape.radius, v.shape.half_length)),
              region)
         \/ DiscMeetsInterior(VAdd(v.pos, Vec(0, v.shape.half_length)),
                              v.shape.radius, region)
         \/ DiscMeetsInterior(VSub(v.pos, Vec(0, v.shape.half_length)),
                              v.shape.radius, region)

\* ------------------------------------------------------------------------
\* Properties

\* C1 as stated: a query that returns, returns exactly the stored entries
\* whose shape intersects the region, touching included.
C1_QueryReturnsAllIntersecting ==
  (op.name = "query" /\ status = "ok") =>
    \A v \in Values :
      CountSeq(op.ret, v) =
        IF intersects(v, RectAsQuadVal(op.arg)) THEN Count(root, v) ELSE 0

\* C1 amended: a query that returns, returns only stored entries whose shape
\* intersects the region, each at most once; it returns every stored entry
\* whose shape reaches into the interior of the region; an entry that only
\* touches the region is returned exactly when the box of its node and the
\* boxes of all ancestors of the node share area with the region.
C1_QueryExactUpToTouching ==
  (op.name = "query" /\ status = "ok") =>
    \A v \in Values :
      /\ CountSeq(op.ret, v) =
           IF intersects(v, RectAsQuadVal(op.arg))
           THEN CountOverlapping(root, TreeBounds, op.arg, v) ELSE 0
      /\ MeetsInterior(v, op.arg) => CountSeq(op.ret, v) = Count(root, v)
      /\ Len(op.ret) <= Size(root)

\* a query on a tree of two or more levels returns entries and leaves out a
\* stored entry that touches the region
C1_Witness ==
  /\ op.name = "query" /\ status = "ok"
  /\ Height(root) >= 2
  /\ Len(op.ret) >= 2
  /\ \E v \in Values :
       /\ intersects(v, RectAsQuadVal(op.arg))
       /\ Count(root, v) > 0
       /\ CountSeq(op.ret, v) = 0

\* the number of pairs of k entries
Choose2(k) == (k * (k - 1)) \div 2

\* C2: find_all_intersections returns every pair of stored entries whose
\* shapes intersect exactly once, in one of the two orders, and no other pair.
C2_EachIntersectingPairOnce ==
  op.name = "find_all_intersections" =>
    /\ status = "ok"
    /\ \A a \in Values : \A b \in Values :
         CountSeq(op.ret, << a, b >>)
           + (IF a # b THEN CountSeq(op.ret, << b, a >>) ELSE 0)
         = IF ~intersects(a, b) THEN 0
           ELSE IF a = b THEN Choose2(Count(root, a))
           ELSE Count(root, a) * Count(root, b)

\* the call has reported a pair of a value of the root with a value below
\* it and a pair of two values below the root, and two stored values that do
\* not intersect lie in the tree
C2_Witness ==
  /\ op.name = "find_all_intersections" /\ status = "ok"
  /\ ~is_leaf(root)
  /\ \E i \in DOMAIN op.ret :
       /\ CountSeq(root.values, op.ret[i][1]) > 0
       /\ CountSeq(root.values, op.ret[i][2]) = 0
  /\ \E i \in DOMAIN op.ret :
       /\ CountSeq(root.values, op.ret[i][1]) = 0
       /\ CountSeq(root.values, op.ret[i][2]) = 0
  /\ \E a \in Values : \E b \in Values :
       Count(root, a) > 0 /\ Count(root, b) > 0 /\ ~intersects(a, b)

\* C3 as stated: remove of a value that the tree stores returns and takes
\* exactly one entry equal to the value out of the tree.
C3_RemoveTakesOneEntry ==
  (op.name = "remove" /\ Count(pre, op.arg) > 0) =>
    /\ status = "ok"
    /\ \A v \in Values :
         Count(root, v) = Count(pre, v) - (IF v = op.arg THEN 1 ELSE 0)

\* C4 as stated: remove of a value that the tree does not store returns and
\* leaves the stored entries as they were.
C4_RemoveAbsentIsNoOp ==
  (op.name = "remove" /\ Count(pre, op.arg) = 0) =>
    /\ status = "ok"
    /\ \A v \in Values : Count(root, v) = Count(pre, v)

\* C5 as stated: from every tree, insert of a value followed at once by
\* remove of the value returns and leaves the stored entries as they were.
C5_InsertThenRemove ==
  status = "ok" =>
    \A val \in Values :
      LET i == insert(root, TreeBounds, 0, val)
          r == remove(i.node, TreeBounds, val)
      IN  /\ i.ok
          /\ r.ok
          /\ \A v \in Values : Count(r.node, v) = Count(root, v)

\* C6: clear leaves the root an empty leaf; every query after it returns
\* nothing and a second clear changes nothing.
C6_ClearLeavesEmptyLeaf ==
  op.name = "clear" =>
    /\ status = "ok"
    /\ is_leaf(root)
    /\ root.children = << None, None, None, None >>
    /\ root.values = << >>
    /\ clear(root) = Ok(root)
    /\ \A region \in Regions : query(root, TreeBounds, region, << >>).out = << >>

\* clear has run on a tree of two or more levels that held a value of its
\* own at the root, one not contained in the bounds
C6_Witness ==
  /\ op.name = "clear" /\ status = "ok"
  /\ Height(pre) >= 2
  /\ CountSeq(pre.values, CircF) > 0

\* the bounding box of v is not inside the tree bounds
OutOfBounds(v) ==
  \/ aabb(v).min.x < TreeBounds.min.x \/ aabb(v).min.y < TreeBounds.min.y
  \/ aabb(v).max.x > TreeBounds.max.x \/ aabb(v).max.y > TreeBounds.max.y

\* C7: a value whose bounding box is not inside the tree bounds is taken by
\* insert and insert_many, all its entries are in the list of the root, and
\* every query that returns and whose region it intersects returns them.
C7_OutOfBoundsAtRoot ==
  \A v \in Values :
    OutOfBounds(v) =>
      /\ Count(root, v) = CountSeq(root.values, v)
      /\ (op.name = "insert" /\ op.arg = v) =>
           (status = "ok" /\ CountSeq(root.values, v) = Count(pre, v) + 1)
      /\ op.name = "insert_many" =>
           /\ status = "ok"
           /\ CountSeq(root.values, v) = Count(pre, v) + CountSeq(op.arg, v)
      /\ (op.name = "query" /\ status = "ok"
            /\ intersects(v, RectAsQuadVal(op.arg))) =>
           CountSeq(op.ret, v) = Count(root, v)

\* a query on a tree with children returns a value that is out of bounds
C7_Witness ==
  /\ op.name = "query" /\ status = "ok"
  /\ ~is_leaf(root)
  /\ \E v \in Values :
       OutOfBounds(v) /\ CountSeq(root.values, v) > 0 /\ CountSeq(op.ret, v) > 0

\* the closed rectangles a and b have no point in common
Disjoint(a, b) ==
  \/ a.max.x < b.min.x \/ b.max.x < a.min.x
  \/ a.max.y < b.min.y \/ b.max.y < a.min.y

\* C8: a query whose region has no point in common with the tree bounds
\* panics.
C8_DisjointQueryPanics ==
  (op.name = "query" /\ Disjoint(op.arg, TreeBounds)) => status = "panicked"

\* such a query has panicked on a tree with children
C8_Witness ==
  /\ op.name = "query" /\ Disjoint(op.arg, TreeBounds)
  /\ status = "panicked"
  /\ ~is_leaf(root) /\ Size(root) > 0

\* every value in the subtrees below node is contained in the bounds of its
\* node, computed with compute_bounds from the bounds of node
RECURSIVE ContainedBelow(_, _)
ContainedBelow(node, bounds) ==
  \A idx \in 0..3 :
    node.children[idx + 1] # None =>
      LET child == node.children[idx + 1][1]
          child_bounds == compute_bounds(bounds, idx)
      IN  /\ \A i \in DOMAIN child.values :
               /\ RectContains(child_bounds, aabb(child.values[i]).min)
               /\ RectContains(child_bounds, aabb(child.values[i]).max)
          /\ ContainedBelow(child, child_bounds)

\* C9: every value stored in a node other than the root has its bounding box
\* inside the bounds of that node.
C9_Containment == ContainedBelow(root, TreeBounds)

\* an insert has subdivided a leaf of the tree and the tree holds values two
\* levels below the root, in more than one quadrant
C9_Witness ==
  /\ op.name \in {"insert", "insert_many"} /\ status = "ok"
  /\ Height(pre) < Height(root)
  /\ Height(root) >= 2
  /\ \E i \in 1..4 : \E j \in 1..4 : \E k \in 1..4 :
       /\ j # k
       /\ root.children[i] # None
       /\ root.children[i][1].children[j] # None
       /\ root.children[i][1].children[j][1].values # << >>
       /\ root.children[i][1].children[k][1].values # << >>

C11_NearestOutsideIsNone ==
  (op.name = "nearest" /\ ~RectContains(TreeBounds, op.arg)) =>
    (status = "ok" /\ op.ret = None)

\* C12 as stated: in the split scenario the root is a leaf with 5 values
\* after the five points, and after the 16 grid points the root has children,
\* its own list is empty and every child of the root holds only values
\* whose bounding box is inside the quadrant of the child.
C12_SplitScenario ==
  /\ Size(root) = Len(pts) => (is_leaf(root) /\ Len(root.values) = 5)
  /\ Size(root) = Len(pts) + Len(threshold_pts) =>
       /\ ~is_leaf(root)
       /\ root.values = << >>
       /\ \A idx \in 0..3 :
            LET child == root.children[idx + 1][1]
            IN  \A i \in DOMAIN child.values :
                  is_contained_by(child.values[i], compute_bounds(TreeBounds, idx))

\* region lies inside the closed rectangle bounds
Inside(region, bounds) ==
  /\ bounds.min.x <= region.min.x /\ region.max.x <= bounds.max.x
  /\ bounds.min.y <= region.min.y /\ region.max.y <= bounds.max.y

\* region is the box of a node of the subtree of node, node itself excluded
RECURSIVE IsBoxBelow(_, _, _)
IsBoxBelow(node, bounds, region) ==
  /\ node.children[1] # None
  /\ \E idx \in 0..3 :
       \/ region = QuadrantBox(bounds, idx)
       \/ /\ Inside(region, QuadrantBox(bounds, idx))
          /\ IsBoxBelow(node.children[idx + 1][1], QuadrantBox(bounds, idx), region)

\* what a query for the box of a node below node is to return of v: the
\* entries of the subtree of that node, and the entries that the nodes on the
\* path from node down to it hold themselves if v intersects the box
RECURSIVE ExpectedForBox(_, _, _, _)
ExpectedForBox(node, bounds, region, v) ==
  IF bounds = region THEN Count(node, v)
  ELSE (IF intersects(v, RectAsQuadVal(region)) THEN CountSeq(node.values, v)
        ELSE 0)
       + (LET idx == CHOOSE i \in 0..3 : Inside(region, QuadrantBox(bounds, i))
          IN  ExpectedForBox(node.children[idx + 1][1], QuadrantBox(bounds, idx),
                             region, v))

\* C13: a query returns no entry of a child whose bounds share no area with
\* the region; a query for the box of a quadrant returns, and returns the
\* entries of the subtree of the quadrant and the entries of its ancestors
\* that intersect the box, and none of its siblings, not even one that lies
\* on the edge it shares with the quadrant.
C13_TouchingQuadrantsLeftOut ==
  op.name = "query" =>
    /\ status = "ok" =>
         \A v \in Values :
           CountSeq(op.ret, v) <= CountOverlapping(root, TreeBounds, op.arg, v)
    /\ IsBoxBelow(root, TreeBounds, op.arg) =>
         /\ status = "ok"
         /\ \A v \in Values :
              CountSeq(op.ret, v) = ExpectedForBox(root, TreeBounds, op.arg, v)

\* a query for the box of quadrant 1 of the root has returned a value of
\* that quadrant and has left out a value that a sibling holds and that lies
\* on the edge that the sibling shares with the quadrant
C13_Witness ==
  /\ op.name = "query" /\ status = "ok"
  /\ ~is_leaf(root)
  /\ op.arg = QuadrantBox(TreeBounds, 1)
  /\ Len(op.ret) > 0
  /\ \E v \in Values :
       /\ CountSeq(root.children[3][1].values, v) > 0
       /\ v.pos.y = QuadrantBox(TreeBounds, 1).max.y
       /\ v.pos.x >= QuadrantBox(TreeBounds, 1).min.x
       /\ intersects(v, RectAsQuadVal(op.arg))
       /\ Count(root.children[2][1], v) = 0
       /\ CountSeq(op.ret, v) = 0

\* C14: intersects is symmetric: a.intersects(b) equals b.intersects(a) for
\* values a and b of every kind.
C14_IntersectsSymmetric ==
  (op.name = "intersects" /\ op.ret # None) =>
    op.ret[1] = intersects(op.arg[2], op.arg[1])

\* a capsule and a rectangle at different positions have been found to
\* intersect
C14_Witness ==
  /\ op.name = "intersects" /\ op.ret = Some(TRUE)
  /\ op.arg[1].shape.kind = "Capsule"
  /\ op.arg[2].shape.kind = "Quad"
  /\ op.arg[1].pos # op.arg[2].pos

\* the rectangles that make up the shape of v: the rectangle itself, or the
\* inner rectangle of a capsule
RectsOf(v) ==
  CASE v.shape.kind = "Quad" -> {FromCenterHalfSize(v.pos, v.shape.half_size)}
    [] v.shape.kind = "Circle" -> {}
    [] v.shape.kind = "Capsule" ->
         {FromCenterHalfSize(v.pos, Vec(v.shape.radius, v.shape.half_length))}

\* the discs that make up the shape of v: the circle itself, or the two end
\* caps of a capsule
DiscsOf(v) ==
  CASE v.shape.kind = "Quad" -> {}
    [] v.shape.kind = "Circle" -> {[c |-> v.pos, r |-> v.shape.radius]}
    [] v.shape.kind = "Capsule" ->
         {[c |-> VAdd(v.pos, Vec(0, v.shape.half_length)), r |-> v.shape.radius],
          [c |-> VSub(v.pos, Vec(0, v.shape.half_length)), r |-> v.shape.radius]}

\* the square of the distance from c to the point of rect nearest to it
ClampDistSq(rect, c) ==
  DistSq(Vec(Max2(rect.min.x, Min2(c.x, rect.max.x)),
             Max2(rect.min.y, Min2(c.y, rect.max.y))), c)

\* a part of a and a part of b meet in border points only
PartsTouch(a, b) ==
  \/ \E r1 \in RectsOf(a) : \E r2 \in RectsOf(b) :
       ~Disjoint(r1, r2) /\ ~AreaOverlap(r1, r2)
  \/ \E r1 \in RectsOf(a) : \E d2 \in DiscsOf(b) :
       ClampDistSq(r1, d2.c) = d2.r * d2.r
  \/ \E d1 \in DiscsOf(a) : \E r2 \in RectsOf(b) :
       ClampDistSq(r2, d1.c) = d1.r * d1.r
  \/ \E d1 \in DiscsOf(a) : \E d2 \in DiscsOf(b) :
       DistSq(d1.c, d2.c) = (d1.r + d2.r) * (d1.r + d2.r)

\* a part of a and a part of b have more than border points in common
PartsOverlap(a, b) ==
  \/ \E r1 \in RectsOf(a) : \E r2 \in RectsOf(b) : AreaOverlap(r1, r2)
  \/ \E r1 \in RectsOf(a) : \E d2 \in DiscsOf(b) :
       ClampDistSq(r1, d2.c) < d2.r * d2.r
  \/ \E d1 \in DiscsOf(a) : \E r2 \in RectsOf(b) :
       ClampDistSq(r2, d1.c) < d1.r * d1.r
  \/ \E d1 \in DiscsOf(a) : \E d2 \in DiscsOf(b) :
       DistSq(d1.c, d2.c) < (d1.r + d2.r) * (d1.r + d2.r)

\* C15: the border counts: two values intersect whenever a part of the one
\* and a part of the other touch, be it two rectangles that share an edge or
\* a corner, two circles at a distance of the sum of their radii, or a
\* rectangle and a circle whose nearest point of the rectangle is at the
\* distance of the radius; the parts of a capsule are its inner rectangle and
\* its two end caps.
C15_TouchingIntersects ==
  (op.name = "intersects" /\ op.ret # None
     /\ PartsTouch(op.arg[1], op.arg[2])) =>
    op.ret = Some(TRUE)

\* a capsule and a circle that touch and do no more than touch have been
\* found to intersect
C15_Witness ==
  /\ op.name = "intersects" /\ op.ret = Some(TRUE)
  /\ op.arg[1].shape.kind = "Capsule"
  /\ op.arg[2].shape.kind = "Circle"
  /\ op.arg[2].shape.radius > 0
  /\ PartsTouch(op.arg[1], op.arg[2])
  /\ ~PartsOverlap(op.arg[1], op.arg[2])

\* a part of a and a part of b have a point in common, by the closed test
\* of two rectangles, the test of a rectangle and a circle by the nearest
\* point of the rectangle, and the test of two circles
PartsMeet(a, b) ==
  \/ \E r1 \in RectsOf(a) : \E r2 \in RectsOf(b) : ~Disjoint(r1, r2)
  \/ \E r1 \in RectsOf(a) : \E d2 \in DiscsOf(b) :
       ClampDistSq(r1, d2.c) <= d2.r * d2.r
  \/ \E d1 \in DiscsOf(a) : \E r2 \in RectsOf(b) :
       ClampDistSq(r2, d1.c) <= d1.r * d1.r
  \/ \E d1 \in DiscsOf(a) : \E d2 \in DiscsOf(b) :
       DistSq(d1.c, d2.c) <= (d1.r + d2.r) * (d1.r + d2.r)

\* C16: with a capsule taken as its inner rectangle, of half extents
\* (radius, half_length), and two end caps of its radius around its position
\* plus and minus (0, half_length), two values intersect exactly when a part
\* of the one and a part of the other have a point in common.
C16_IntersectsIsPartwise ==
  (op.name = "intersects" /\ op.ret # None) =>
    op.ret[1] = PartsMeet(op.arg[1], op.arg[2])

\* two capsules whose inner rectangles have no point in common have been
\* found to intersect
C16_Witness ==
  /\ op.name = "intersects" /\ op.ret = Some(TRUE)
  /\ op.arg[1].shape.kind = "Capsule"
  /\ op.arg[2].shape.kind = "Capsule"
  /\ \A r1 \in RectsOf(op.arg[1]) : \A r2 \in RectsOf(op.arg[2]) :
       Disjoint(r1, r2)

\* in remove(val) on the subtree of node, every node with children that
\* descends into a child gets true from the remove of that child
RECURSIVE DescentsReturnTrue(_, _, _)
DescentsReturnTrue(node, bounds, val) ==
  \/ is_leaf(node)
  \/ find_quadrant(bounds, val) = None
  \/ LET idx == find_quadrant(bounds, val)[1]
         child == node.children[idx + 1][1]
         r == remove(child, compute_bounds(bounds, idx), val)
     IN  /\ r.ok
         /\ r.merge
         /\ DescentsReturnTrue(child, compute_bounds(bounds, idx), val)

\* C17 as stated: in every tree that the calls build and for every value,
\* the remove of the child that a node descends into returns true, so that
\* the unreachable! of QNode::remove is not run and remove returns.
C17_ChildRemoveReturnsTrue ==
  /\ status = "ok" =>
       \A val \in Values : DescentsReturnTrue(root, TreeBounds, val)
  /\ op.name = "remove" => status = "ok"

\* node has four children that are all leaves, and its own values and the
\* values of its children are no more than the threshold: try_merge would
\* fold it
Mergeable(node) ==
  /\ \A i \in 1..4 :
       node.children[i] # None /\ node.children[i][1].children[1] = None
  /\ Len(node.values)
       + Len(node.children[1][1].values) + Len(node.children[2][1].values)
       + Len(node.children[3][1].values) + Len(node.children[4][1].values)
     <= threshold

\* no node of the subtree of node is mergeable
RECURSIVE NoMergeable(_)
NoMergeable(node) ==
  /\ ~Mergeable(node)
  /\ \A i \in 1..4 :
       node.children[i] # None => NoMergeable(node.children[i][1])

RECURSIVE WellShaped(_)
WellShaped(node) ==
  /\ \/ \A i \in 1..4 : node.children[i] = None
     \/ \A i \in 1..4 : node.children[i] # None
  /\ \A i \in 1..4 :
       node.children[i] # None => WellShaped(node.children[i][1])

\* remove(val) on the subtree of node comes to the unreachable! of a node:
\* the remove of the child that the node descends into returns false
RECURSIVE ReachesUnreachable(_, _, _)
ReachesUnreachable(node, bounds, val) ==
  /\ ~is_leaf(node)
  /\ find_quadrant(bounds, val) # None
  /\ LET idx == find_quadrant(bounds, val)[1]
     IN  /\ node.children[idx + 1] # None
         /\ LET child == node.children[idx + 1][1]
                r == remove(child, compute_bounds(bounds, idx), val)
            IN  \/ r.ok /\ ~r.merge
                \/ ReachesUnreachable(child, compute_bounds(bounds, idx), val)

\* C19: in every tree that insert, insert_many, remove and clear have built,
\* every node has no child or four children, so that is_leaf tells whether
\* all four are absent; and no unwrap of a child and no assertion of subdivide
\* or try_merge fails: insert, insert_many, clear, find_all_intersections and
\* nearest return, a query panics only by the assertion on its region, and a
\* remove only by its unreachable!.
C19_NodeShape ==
  /\ status = "ok" => WellShaped(root)
  /\ op.name \in {"insert", "insert_many", "clear", "find_all_intersections",
                  "nearest"} => status = "ok"
  /\ (op.name = "query" /\ status = "panicked") =>
       RectIsEmpty(RectIntersect(TreeBounds, op.arg))
  /\ (op.name = "remove" /\ status = "panicked") =>
       ReachesUnreachable(pre, TreeBounds, op.arg)

\* a remove has folded a tree of two levels into a leaf that holds values
C19_Witness ==
  /\ op.name = "remove" /\ status = "ok"
  /\ Height(pre) = 2
  /\ is_leaf(root)
  /\ root.children = << None, None, None, None >>
  /\ Size(root) > 0

\* every leaf of the subtree of node, which is at depth, that is above
\* MAX_DEPTH holds no more values than the threshold
RECURSIVE LeafCapacity(_, _)
LeafCapacity(node, depth) ==
  IF node.children[1] = None
  THEN depth < MAX_DEPTH => Len(node.values) <= threshold
  ELSE \A i \in 1..4 :
         node.children[i] # None => LeafCapacity(node.children[i][1], depth + 1)

\* the root holds, at depth levels below it, a leaf with more than the
\* threshold of values
RECURSIVE FullLeafAt(_, _)
FullLeafAt(node, depth) ==
  IF node.children[1] = None
  THEN depth = 0 /\ Len(node.values) > threshold
  ELSE depth > 0 /\ \E i \in 1..4 : FullLeafAt(node.children[i][1], depth - 1)

\* C20: in every tree that insert, insert_many, remove and clear have built,
\* a leaf above MAX_DEPTH holds no more than THRESHOLD values; an insert into
\* a root that is a leaf keeps it a leaf as long as it held fewer than
\* THRESHOLD values, exactly THRESHOLD after the insert included, and
\* subdivides it when it held THRESHOLD.
C20_LeafCapacity ==
  status = "ok" =>
    /\ LeafCapacity(root, 0)
    /\ (op.name = "insert" /\ is_leaf(pre)) =>
         IF Len(pre.values) < threshold
         THEN is_leaf(root) /\ Len(root.values) = Len(pre.values) + 1
         ELSE ~is_leaf(root)

\* an insert has made a leaf at MAX_DEPTH hold more than the threshold of
\* values
C20_Witness ==
  /\ op.name = "insert" /\ status = "ok"
  /\ FullLeafAt(root, MAX_DEPTH)
  /\ ~FullLeafAt(pre, MAX_DEPTH)

\* C21: with the root at depth 0 no node lies deeper than MAX_DEPTH, so
\* that a node at MAX_DEPTH is a leaf, whatever the calls were, inserts of
\* equal values among them; and insert and insert_many, which subdivide and
\* try again, return.
C21_DepthBound ==
  /\ Height(root) <= MAX_DEPTH
  /\ op.name \in {"insert", "insert_many"} =>
       (status = "ok" /\ Size(root) > Size(pre))

\* an insert has put one more value into a leaf at MAX_DEPTH that held more
\* than the threshold already
C21_Witness ==
  /\ op.name = "insert" /\ status = "ok"
  /\ Height(root) = MAX_DEPTH
  /\ FullLeafAt(pre, MAX_DEPTH)
  /\ Count(pre, op.arg) > threshold

\* every value in the own list of a node with children, in the subtree of
\* node, is one that find_quadrant gives no quadrant of the node for, and is
\* no point inside the bounds of the node
RECURSIVE OverflowOnly(_, _)
OverflowOnly(node, bounds) ==
  \/ is_leaf(node)
  \/ /\ \A i \in DOMAIN node.values :
          /\ find_quadrant(bounds, node.values[i]) = None
          /\ ~(/\ aabb(node.values[i]).min = aabb(node.values[i]).max
               /\ is_contained_by(node.values[i], bounds))
     /\ \A idx \in 0..3 :
          OverflowOnly(node.children[idx + 1][1], compute_bounds(bounds, idx))

\* C22: in every tree that the calls have built, a value in the own list of
\* a node with children fits in none of the quadrants of the node: it lies
\* across a centre line or is not contained in the bounds of the node; a
\* point inside the bounds is never kept there.
C22_OverflowOnly == status = "ok" => OverflowOnly(root, TreeBounds)

\* an insert has subdivided a leaf; the root keeps a value of its own, a
\* child of the root with children keeps one too, and a point lies below
\* that child
C22_Witness ==
  /\ op.name \in {"insert", "insert_many"} /\ status = "ok"
  /\ Height(pre) < Height(root)
  /\ root.values # << >>
  /\ \E i \in 1..4 :
       /\ root.children[i] # None
       /\ ~is_leaf(root.children[i][1])
       /\ root.children[i][1].values # << >>
       /\ Size(root.children[i][1]) > Len(root.children[i][1].values)

\* C23: the stored entries are the entries inserted since the last clear
\* less one for each remove that found its value: a call that returns
\* changes the number of stored entries equal to v by what it inserts or
\* removes of v and by nothing else, however nodes are subdivided and folded,
\* and the values of the model account for every stored entry.
C23_Conservation ==
  status = "ok" =>
    /\ \A v \in Values :
         Count(root, v) =
           CASE op.name = "insert" ->
                  Count(pre, v) + (IF v = op.arg THEN 1 ELSE 0)
             [] op.name = "insert_many" -> Count(pre, v) + CountSeq(op.arg, v)
             [] op.name = "remove" ->
                  Count(pre, v)
                    - (IF v = op.arg /\ Count(pre, v) > 0 THEN 1 ELSE 0)
             [] op.name \in {"clear", "new"} -> 0
             [] OTHER -> Count(pre, v)
    /\ Size(root) =
         Count(root, PtA) + Count(root, PtB) + Count(root, PtC)
         + Count(root, QuadD) + Count(root, QuadE) + Count(root, CircF)
         + Count(root, CapG)

\* a remove has taken one of several equal entries out of a tree and has
\* folded nodes of it, and other values are still stored
C23_Witness ==
  /\ op.name = "remove" /\ status = "ok"
  /\ Count(pre, op.arg) > 1
  /\ Height(root) < Height(pre)
  /\ Size(root) > Count(root, op.arg)

\* insert of the items from item i on, one after the other
RECURSIVE InsertEach(_, _, _)
InsertEach(node, items, i) ==
  IF i > Len(items) THEN Ok(node)
  ELSE LET r == insert(node, TreeBounds, 0, items[i])
       IN  IF ~r.ok THEN r ELSE InsertEach(r.node, items, i + 1)

\* the trees a and b have the same nodes, and each node holds the same
\* values as often in a as in b
RECURSIVE SameUpToOrder(_, _)
SameUpToOrder(a, b) ==
  /\ Len(a.values) = Len(b.values)
  /\ \A v \in Values : CountSeq(a.values, v) = CountSeq(b.values, v)
  /\ \A i \in 1..4 :
       /\ (a.children[i] = None) <=> (b.children[i] = None)
       /\ a.children[i] # None => SameUpToOrder(a.children[i][1], b.children[i][1])

\* C24: on every tree that the calls have built and for every list of
\* items, insert_many gives the tree that insert of the items one after the
\* other gives: the same nodes, and in every node the same values, in
\* whatever order.
C24_BatchIsRepeatedInsert ==
  status = "ok" =>
    \A items \in Batches :
      LET m == insert_many(root, TreeBounds, 0, items)
          e == InsertEach(root, items, 1)
      IN  m.ok /\ e.ok /\ SameUpToOrder(m.node, e.node)

\* a list of three or more items, put into a tree with children, makes the
\* tree deeper and leaves a value in the list of the root
C24_Witness ==
  /\ status = "ok"
  /\ op.name = "remove"
  /\ ~is_leaf(root)
  /\ \E items \in Batches :
       LET m == insert_many(root, TreeBounds, 0, items)
       IN  /\ Len(items) >= 3
           /\ m.ok
           /\ Height(m.node) > Height(root)
           /\ Len(m.node.values) > Len(root.values)


\* C25: every entry a query returns has a shape with a point in the region,
\* by the shape itself and not by its bounding box, and the result holds a
\* value at most as often as the tree stores it.
C25_QuerySound ==
  (op.name = "query" /\ status = "ok") =>
    \A v \in Values :
      /\ CountSeq(op.ret, v) <= Count(root, v)
      /\ CountSeq(op.ret, v) > 0 => PartsMeet(v, RectAsQuadVal(op.arg))

\* a query that returns entries, one of them stored twice, and leaves out a
\* stored circle whose bounding box reaches the region while its disc does
\* not
C25_Witness ==
  /\ op.name = "query" /\ status = "ok"
  /\ \E c \in Values :
       /\ c.shape.kind = "Circle"
       /\ Count(root, c) > 0
       /\ rects_intersect(aabb(c), op.arg)
       /\ ~PartsMeet(c, RectAsQuadVal(op.arg))
       /\ CountSeq(op.ret, c) = 0
  /\ \E v \in Values : Count(root, v) = 2 /\ CountSeq(op.ret, v) = 2


\* nearest as a descent by the bounds of each node: the quadrant of pos in
\* the bounds of the node, then the child of that quadrant with the bounds
\* of that quadrant, down to a leaf, whose values are scanned
RECURSIVE NearestByOwnBounds(_, _, _)
NearestByOwnBounds(node, bounds, pos) ==
  IF node.children[1] = None
  THEN IF node.values = << >> THEN None
       ELSE Some(closest(node.values, pos, 2, node.values[1]))
  ELSE
    LET q == find_quadrant(bounds, PointAsQuadVal(pos))
    IN  IF q = None THEN None
        ELSE NearestByOwnBounds(node.children[q[1] + 1][1],
                                QuadrantBox(bounds, q[1]), pos)

\* C26 as stated: nearest on a tree with children returns what the scan of
\* the leaf returns that the descent by the bounds of each node ends in, at
\* every depth.
C26_NearestDescendsByOwnBounds ==
  (op.name = "nearest" /\ status = "ok" /\ ~is_leaf(root)) =>
    op.ret = NearestByOwnBounds(root, TreeBounds, op.arg)


\* ------------------------------------------------------------------------
\* The order of insertion: the callers insert the values of order_vals, a
\* value only while no value that follows it in order_vals is stored, so that
\* the stored values have been inserted in the order of order_vals; they
\* remove and query as they like.  The tree is built with the small
\* threshold or with THRESHOLD.

order_vals == << CapG, PtB, PtA, QuadD, QuadE, CircF >>

OrderInit ==
  /\ root = QNodeNew
  /\ status = "ok"
  /\ op = [name |-> "new", arg |-> << >>, ret |-> << >>]
  /\ pre = QNodeNew
  /\ threshold \in {SmallThreshold, THRESHOLD}

\* no value of order_vals from index i on is stored
NoneStoredFrom(i) ==
  \A k \in i..Len(order_vals) : Count(root, order_vals[k]) = 0

OrderInsert(i) ==
  /\ NoneStoredFrom(i)
  /\ Insert(order_vals[i])

OrderInsertMany(i, j) ==
  /\ NoneStoredFrom(i)
  /\ InsertMany(SubSeq(order_vals, i, j))

OrderNext ==
  \/ \E i \in DOMAIN order_vals : OrderInsert(i)
  \/ \E i \in DOMAIN order_vals :
       \E j \in (i + 1)..Len(order_vals) : OrderInsertMany(i, j)
  \/ \E i \in DOMAIN order_vals : Remove(order_vals[i])
  \/ \E query_bounds \in Regions : Query(query_bounds)

OrderSpec == OrderInit /\ [][OrderNext]_vars

\* the index of a value of order_vals
OrderIndex(v) == CHOOSE i \in DOMAIN order_vals : order_vals[i] = v

\* the list holds values of order_vals in the order of order_vals
InOrder(values) ==
  \A i, j \in DOMAIN values :
    i < j => OrderIndex(values[i]) < OrderIndex(values[j])

\* the list of every node of the subtree is in the order of order_vals
RECURSIVE ListsInOrder(_)
ListsInOrder(node) ==
  /\ InOrder(node.values)
  /\ node.children[1] # None =>
       \A idx \in 0..3 : ListsInOrder(node.children[idx + 1][1])

\* the entries of the node that intersect the region, in the order of the
\* list of the node, or in the order of order_vals
OwnMatches(node, region, by_insertion) ==
  LET Hit(val) == intersects(val, RectAsQuadVal(region))
      StoredHit(val) == CountSeq(node.values, val) > 0 /\ Hit(val)
  IN  IF by_insertion THEN SelectSeq(order_vals, StoredHit)
      ELSE SelectSeq(node.values, Hit)

\* the traversal: the matches of the node, then the traversals of the
\* children 0, 1, 2, 3 whose box shares area with the region
RECURSIVE Traversal(_, _, _, _)
RECURSIVE TraversalFrom(_, _, _, _, _)
TraversalFrom(node, bounds, region, by_insertion, idx) ==
  IF idx > 3 THEN << >>
  ELSE (IF AreaOverlap(QuadrantBox(bounds, idx), region)
        THEN Traversal(node.children[idx + 1][1], QuadrantBox(bounds, idx),
                       region, by_insertion)
        ELSE << >>)
       \o TraversalFrom(node, bounds, region, by_insertion, idx + 1)

Traversal(node, bounds, region, by_insertion) ==
  OwnMatches(node, region, by_insertion)
  \o (IF node.children[1] = None THEN << >>
      ELSE TraversalFrom(node, bounds, region, by_insertion, 0))

\* C27 as stated: a query that returns, returns for each node it visits the
\* matching entries of the node in the order of their insertion, and then
\* the results of the children 0, 1, 2, 3, depth first.
C27_InsertionOrder ==
  (op.name = "query" /\ status = "ok") =>
    op.ret = Traversal(root, TreeBounds, op.arg, TRUE)

\* C27 amended: a query that returns, returns for each node it visits the
\* matching entries of the node in the order of the list of the node, and
\* then the results of the children 0, 1, 2, 3, depth first; insert and
\* insert_many keep the lists in the order of insertion (a removal and a
\* merge need not).
C27_ListOrder ==
  /\ (op.name = "query" /\ status = "ok") =>
       op.ret = Traversal(root, TreeBounds, op.arg, FALSE)
  /\ (op.name \in {"insert", "insert_many"} /\ status = "ok"
        /\ ListsInOrder(pre)) => ListsInOrder(root)

\* a query on a tree with children has returned entries of the root and of
\* two children, and not in the order of insertion
C27_Witness ==
  /\ op.name = "query" /\ status = "ok"
  /\ ~is_leaf(root)
  /\ ~ListsInOrder(root)
  /\ op.ret # Traversal(root, TreeBounds, op.arg, TRUE)
  /\ Len(OwnMatches(root, op.arg, FALSE)) >= 1
  /\ Len(op.ret) >= 3


\* ------------------------------------------------------------------------
\* find_quadrant and compute_bounds on their own: the calls
\* find_quadrant(bounds, rect) and compute_bounds(parent, idx) for parents
\* and rectangles on a grid, the rectangles inside, across and outside the
\* parents, on and off their center lines, with and without extent.

QuadrantParents ==
  { FromCorners(Vec(0, 0), Vec(8, 8)), FromCorners(Vec(0, 0), Vec(16, 8)),
    FromCorners(Vec(-4, 2), Vec(4, 10)) }

QuadrantCoords == { -4, -2, 0, 2, 4, 6, 8, 10 }

QuadrantRects ==
  { FromCorners(Vec(x0, y0), Vec(x1, y1)) :
      x0 \in QuadrantCoords, y0 \in QuadrantCoords,
      x1 \in QuadrantCoords, y1 \in QuadrantCoords }

QuadrantInit ==
  /\ root = QNodeNew
  /\ status = "ok"
  /\ op \in { [name |-> "find_quadrant", arg |-> << b, r >>, ret |-> None] :
                b \in QuadrantParents, r \in QuadrantRects }
            \cup
            { [name |-> "compute_bounds", arg |-> << b, idx >>, ret |-> None] :
                b \in QuadrantParents, idx \in 0..3 }
  /\ pre = QNodeNew
  /\ threshold = THRESHOLD

\* find_quadrant(bounds, val), with the bounds and the Rect drawn
FindQuadrant ==
  /\ status = "ok"
  /\ op.name = "find_quadrant"
  /\ op.ret = None
  /\ op' = [op EXCEPT
              !.ret = Some(find_quadrant(op.arg[1], RectAsQuadVal(op.arg[2])))]
  /\ UNCHANGED << root, status, pre, threshold >>

\* compute_bounds(parent, idx), with the parent and the index drawn
ComputeBounds ==
  /\ status = "ok"
  /\ op.name = "compute_bounds"
  /\ op.ret = None
  /\ op' = [op EXCEPT !.ret = Some(compute_bounds(op.arg[1], op.arg[2]))]
  /\ UNCHANGED << root, status, pre, threshold >>

QuadrantNext ==
  \/ FindQuadrant
  \/ ComputeBounds

QuadrantSpec == QuadrantInit /\ [][QuadrantNext]_vars

\* the quadrant that the tests of the claim give a rectangle a in bounds:
\* the set of the indices whose test holds
QuadrantsByTest(bounds, a) ==
  LET cx == (bounds.min.x + bounds.max.x) \div 2
      cy == (bounds.min.y + bounds.max.y) \div 2
  IN  { idx \in 0..3 :
          CASE idx = 0 -> a.max.x < cx /\ a.max.y < cy
            [] idx = 1 -> a.min.x >= cx /\ a.max.y < cy
            [] idx = 2 -> a.min.x >= cx /\ a.min.y >= cy
            [] idx = 3 -> a.max.x < cx /\ a.min.y >= cy }

\* find_quadrant returns none for a rectangle that is not inside the bounds,
\* borders included, and otherwise the index whose test holds, none if no
\* test holds; at most one test holds
QuadrantAsTested ==
  (op.name = "find_quadrant" /\ op.ret # None) =>
    LET b == op.arg[1]
        a == op.arg[2]
        q == op.ret[1]
    IN  /\ ~Inside(a, b) => q = None
        /\ Inside(a, b) =>
             /\ Cardinality(QuadrantsByTest(b, a)) <= 1
             /\ \A idx \in 0..3 : q = Some(idx) <=> idx \in QuadrantsByTest(b, a)
             /\ q = None <=> QuadrantsByTest(b, a) = {}

\* a rectangle inside the bounds whose min is on a center line is not put
\* left of or below that line, and one without extent gets a quadrant
QuadrantOnTheLine ==
  (op.name = "find_quadrant" /\ op.ret # None /\ Inside(op.arg[2], op.arg[1])) =>
    LET b == op.arg[1]
        a == op.arg[2]
        q == op.ret[1]
        cx == (b.min.x + b.max.x) \div 2
        cy == (b.min.y + b.max.y) \div 2
    IN  /\ a.min.x = cx => q \in {None, Some(1), Some(2)}
        /\ a.min.y = cy => q \in {None, Some(2), Some(3)}
        /\ (a.min.x = cx /\ a.min.y = cy) => q = Some(2)
        /\ a.min = a.max => q # None

\* C28 as stated: find_quadrant is as its tests say, and a rectangle inside
\* the bounds whose max is on a center line gets no quadrant.
C28_FindQuadrant ==
  /\ QuadrantAsTested
  /\ QuadrantOnTheLine
  /\ (op.name = "find_quadrant" /\ op.ret # None /\ Inside(op.arg[2], op.arg[1])) =>
       LET b == op.arg[1]
           a == op.arg[2]
           cx == (b.min.x + b.max.x) \div 2
           cy == (b.min.y + b.max.y) \div 2
       IN  (a.max.x = cx \/ a.max.y = cy) => op.ret[1] = None

\* C28 amended: find_quadrant is as its tests say, and a rectangle inside the
\* bounds that has extent along an axis and whose max on that axis is on the
\* center line gets no quadrant; without extent along the axis its min is
\* on the line too, and it is put right of or above the line.
C28_FindQuadrantWithExtent ==
  /\ QuadrantAsTested
  /\ QuadrantOnTheLine
  /\ (op.name = "find_quadrant" /\ op.ret # None /\ Inside(op.arg[2], op.arg[1])) =>
       LET b == op.arg[1]
           a == op.arg[2]
           cx == (b.min.x + b.max.x) \div 2
           cy == (b.min.y + b.max.y) \div 2
       IN  ((a.min.x < a.max.x /\ a.max.x = cx)
              \/ (a.min.y < a.max.y /\ a.max.y = cy)) => op.ret[1] = None

\* find_quadrant has put the point at the center of bounds that are not a
\* square into quadrant 2
C28_Witness ==
  /\ op.name = "find_quadrant" /\ op.ret = Some(Some(2))
  /\ RectWidth(op.arg[1]) # RectHeight(op.arg[1])
  /\ op.arg[2].min = op.arg[2].max
  /\ op.arg[2].max = RectCenter(op.arg[1])


\* the area of a rectangle
RectArea(r) == RectWidth(r) * RectHeight(r)

\* C29: compute_bounds(parent, idx) is the bottom left, bottom right, top
\* right and top left rectangle of half the size of the parent for idx 0, 1,
\* 2, 3; the four are of equal size, no two of them share area, each is inside
\* the parent and their areas add up to the area of the parent; and a
\* rectangle for which find_quadrant(parent, .) returns idx is inside
\* compute_bounds(parent, idx).
C29_ComputeBounds ==
  /\ (op.name = "compute_bounds" /\ op.ret # None) =>
       LET parent == op.arg[1]
           idx == op.arg[2]
           child == op.ret[1]
           cx == (parent.min.x + parent.max.x) \div 2
           cy == (parent.min.y + parent.max.y) \div 2
       IN  /\ child.min.x = (IF idx \in {0, 3} THEN parent.min.x ELSE cx)
           /\ child.max.x = (IF idx \in {0, 3} THEN cx ELSE parent.max.x)
           /\ child.min.y = (IF idx \in {0, 1} THEN parent.min.y ELSE cy)
           /\ child.max.y = (IF idx \in {0, 1} THEN cy ELSE parent.max.y)
           /\ 2 * RectWidth(child) = RectWidth(parent)
           /\ 2 * RectHeight(child) = RectHeight(parent)
           /\ Inside(child, parent)
           /\ \A j \in 0..3 :
                LET other == compute_bounds(parent, j)
                IN  /\ RectWidth(other) = RectWidth(child)
                    /\ RectHeight(other) = RectHeight(child)
                    /\ j # idx =>
                         /\ ~AreaOverlap(child, other)
                         /\ rects_intersect(child, other)
           /\ RectArea(compute_bounds(parent, 0)) + RectArea(compute_bounds(parent, 1))
                + RectArea(compute_bounds(parent, 2)) + RectArea(compute_bounds(parent, 3))
              = RectArea(parent)
  /\ (op.name = "find_quadrant" /\ op.ret # None /\ op.ret[1] # None) =>
       Inside(op.arg[2], compute_bounds(op.arg[1], op.ret[1][1]))

\* find_quadrant has returned quadrant 2 of a parent that does not start at
\* the origin, for the rectangle that reaches from the center lines to the
\* corner of the parent
C29_Witness ==
  /\ op.name = "find_quadrant" /\ op.ret = Some(Some(2))
  /\ op.arg[1].min # Vec(0, 0)
  /\ RectArea(op.arg[2]) > 0
  /\ op.arg[2] = compute_bounds(op.arg[1], 2)


\* the width and the height of what two rectangles have in common, negative
\* when they are apart
OverlapWidth(a, b) == Min2(a.max.x, b.max.x) - Max2(a.min.x, b.min.x)

OverlapHeight(a, b) == Min2(a.max.y, b.max.y) - Max2(a.min.y, b.min.y)

\* the assertion of query holds in every call below node that the descent
\* for the region makes
RECURSIVE AssertionHoldsBelow(_, _, _)
AssertionHoldsBelow(node, bounds, region) ==
  node.children[1] # None =>
    \A idx \in 0..3 :
      LET child_bounds == compute_bounds(bounds, idx)
      IN  ~RectIsEmpty(RectIntersect(region, child_bounds)) =>
            /\ ~RectIsEmpty(RectIntersect(child_bounds, region))
            /\ AssertionHoldsBelow(node.children[idx + 1][1], child_bounds, region)

\* C30: a query panics exactly when what its region and the tree bounds have
\* in common has no width or no height, as it has for a region that only
\* touches the bounds and for a region without area inside them; in every
\* call on a child the assertion holds, so a query that passes the assertion
\* at the root returns.
C30_AssertionAtRootOnly ==
  op.name = "query" =>
    /\ status = "panicked" <=>
         (OverlapWidth(TreeBounds, op.arg) <= 0
            \/ OverlapHeight(TreeBounds, op.arg) <= 0)
    /\ (~Disjoint(op.arg, TreeBounds) /\ ~AreaOverlap(op.arg, TreeBounds)) =>
         status = "panicked"
    /\ AssertionHoldsBelow(root, TreeBounds, op.arg)

\* a query for a region without area inside the bounds has panicked on a
\* tree of two or more levels
C30_Witness ==
  /\ op.name = "query" /\ status = "panicked"
  /\ Inside(op.arg, TreeBounds)
  /\ op.arg.min = op.arg.max
  /\ Height(root) >= 2

=============================================================================
